---- MODULE Spec2Model ----
(***************************************************************************)
(* Model of accera/python/accera/lang/Plan.py: the Plan class (the         *)
(* description-phase transformation calls, the delayed-call registry and   *)
(* the command queue) and the build wrapper of _build_native_nest.         *)
(*                                                                         *)
(* One Plan object is modelled.  Python values are modelled as follows.    *)
(*   - a LoopIndex is an identity token, a number of 1..NumIndices;        *)
(*   - an optional argument is a record [k, v]: k = "none" for None,       *)
(*     k = "val" for a concrete value v, k = "delayed" for a               *)
(*     DelayedParameter whose get_value() returns v once it is resolved;   *)
(*   - an index list argument is such a record whose v is the sequence of  *)
(*     its indices; k = "index" when a single LoopIndex was given instead; *)
(*   - a raised exception is a string naming its kind; an exception that   *)
(*     leaves a public call or the build wrapper is uncaught and ends the  *)
(*     run (pc = "halt").                                                  *)
(***************************************************************************)
EXTENDS Integers, Sequences, FiniteSets, TLC

\* ------------------------------------------------------------------ bounds
NumIndices == 3      \* loop-index tokens 1..NumIndices
MaxRun == 3          \* longest index list given to parallelize
MaxCalls == 2        \* public transformation calls made on the plan in one run
MaxBuilds == 2       \* invocations of the build wrapper in one run
MaxElems == 2        \* largest max_elements budget tried
MaxKernel == 2       \* longest index list given to kernelize
MaxBind == 2         \* longest index list, and longest grid, given to bind

\* ------------------------------------------------------- program constants
BASE_BLOCK_DIM == 16

VARIABLES
    sched,                  \* self._sched._indices: the schedule's index order
    split_factor,           \* self._sched.get_index_transform: SPLIT factor per index, 0 = none
    nest_shape,             \* self._sched._nest._shape: sequence of [shape, index]
    target,                 \* self._target: [category, vectorization_info]
    debug,                  \* __debug__: FALSE when the interpreter runs with -O
    commands,               \* self._commands
    delayed_calls,          \* self._delayed_calls (insertion-ordered dict)
    index_attrs,            \* self._index_attrs
    dynamic_dependencies,   \* self._dynamic_dependencies
    caches,                 \* the Cache / DelayedCache objects created so far
    pc,                     \* where the single host thread is
    rp,                     \* loop position inside the build wrapper
    builds,                 \* number of build-wrapper invocations so far
    context,                \* the NativeLoopNestContext of the current invocation
    exec_log,               \* native-engine calls made by executed commands
    replay_log,             \* pending calls invoked by _replay_delayed_calls
    origin,                 \* per command: which pending call / replay pass appended it
    raised,                 \* kind of the uncaught exception, "none" if none
    last,                   \* the most recent public call: arguments, outcome, state before it
    ncalls,                 \* number of public calls made
    direct                  \* the plan the same calls build when given concrete values

vars == <<sched, split_factor, nest_shape, target, debug, commands, delayed_calls, index_attrs,
          dynamic_dependencies, caches, pc, rp, builds, context, exec_log, replay_log,
          origin, raised, last, ncalls, direct>>

\* ------------------------------------------------------------ Python values
Indices == 1 .. NumIndices

None == [k |-> "none", v |-> 0]
Val(x) == [k |-> "val", v |-> x]
Delayed(x) == [k |-> "delayed", v |-> x]

NoList == [k |-> "none", v |-> <<>>]
\* a single LoopIndex given where a tuple of indices may be given
One(i) == [k |-> "index", v |-> <<i>>]

IsNone(a) == a.k = "none"
IsDelayedParameter(a) == a.k = "delayed"

\* DelayedParameter.get_value(), and the identity on any other value
Resolve(a) == IF a.k = "delayed" THEN [k |-> "val", v |-> a.v] ELSE a

Min(a, b) == IF a < b THEN a ELSE b

\* list.index(x): the 0-based position of x, -1 standing for ValueError
PyIndexOf(s, x) ==
    IF \E p \in 1 .. Len(s) : s[p] = x
    THEN (CHOOSE p \in 1 .. Len(s) : s[p] = x /\ \A q \in 1 .. p - 1 : s[q] # x) - 1
    ELSE -1

\* s[i] with Python's negative indexing; defined iff -len <= i < len
PyInRange(s, i) == -Len(s) <= i /\ i < Len(s)
PyItem(s, i) == IF i >= 0 THEN s[i + 1] ELSE s[Len(s) + i + 1]

\* s[a:b] for 0 <= a <= b: the slice is clipped at the end of the list
PySlice(s, a, b) == SubSeq(s, a + 1, Min(b, Len(s)))

\* ------------------------------------------------------------------ arrays
NoSource == [kind |-> "none", role |-> "", id |-> 0]
ArraySource(role) == [kind |-> "array", role |-> role, id |-> 0]
CacheSource(c) == [kind |-> "cache", role |-> "", id |-> c]

Roles == {"CONST", "INPUT", "INPUT_OUTPUT"}

\* --------------------------------------------------------------- call record
Call(fn) ==
    [fn |-> fn, source |-> NoSource, index |-> None, trigger_index |-> None,
     level |-> None, trigger_level |-> None, max_elements |-> None, thrifty |-> FALSE,
     indices |-> NoList, policy |-> Val("static"), pin |-> None,
     unroll_indices |-> NoList, vectorize_indices |-> NoList, grid |-> <<>>]

\* a command of the queue: partial(self._<kind>, ...)
Cmd(kind, indices, cache, policy) ==
    [kind |-> kind, indices |-> indices, cache |-> cache, policy |-> policy, grid |-> <<>>]

\* the mutable fields of the Plan object, with the outcome of the call in progress
PlanState(c, d, a, dd, cs) ==
    [commands |-> c, delayed_calls |-> d, index_attrs |-> a, dynamic_dependencies |-> dd,
     caches |-> cs, err |-> "none", ret |-> 0]

Self == PlanState(commands, delayed_calls, index_attrs, dynamic_dependencies, caches)

Raise(P, kind) == [P EXCEPT !.err = kind]

\* ------------------------------------------------------------ Plan methods

\* Plan._add_index_attr; the key 0 stands for the key None
add_index_attr(P, index, attr) ==
    [P EXCEPT !.index_attrs[index] = Append(@, attr)]

RECURSIVE add_index_attrs(_, _, _)
add_index_attrs(P, indices, attr) ==
    IF indices = <<>> THEN P
    ELSE add_index_attrs(add_index_attr(P, Head(indices), attr), Tail(indices), attr)

\* an entry of self._delayed_calls: the key partial(self.<fn>, ...) and the value stored
\* under it.  bag = "bare" when the value is the DelayedParameter itself, "dict" when it
\* is a dict of keyword arguments; cache is the _delayed_cache bound into the partial.
Entry(fn, bag, call, cache) == [fn |-> fn, bag |-> bag, call |-> call, cache |-> cache]

Register(P, e) == [P EXCEPT !.delayed_calls = Append(@, e)]

\* mutant: the command is put at the front of the queue
Enqueue_at_front(P, cmd) == [P EXCEPT !.commands = <<cmd>> \o @]

Enqueue(P, cmd) == [P EXCEPT !.commands = Append(@, cmd)]

\* Plan.unroll
unroll(P, index) ==
    IF IsDelayedParameter(index)
    THEN Register(P, Entry("unroll", "bare", [Call("unroll") EXCEPT !.index = index], 0))
    ELSE Enqueue(add_index_attr(P, index.v, "unrolled"), Cmd("unroll", <<index.v>>, 0, ""))

\* mutant: the index is tagged before the target is looked at
vectorize_tags_first(P, index) ==
    IF IsDelayedParameter(index)
    THEN Register(P, Entry("vectorize", "bare", [Call("vectorize") EXCEPT !.index = index], 0))
    ELSE IF ~target.vectorization_info
    THEN Raise(add_index_attr(P, index.v, "vectorized"), "UnsupportedTarget")
    ELSE Enqueue(add_index_attr(P, index.v, "vectorized"), Cmd("vectorize", <<index.v>>, 0, ""))

\* Plan.vectorize
vectorize(P, index) ==
    IF IsDelayedParameter(index)
    THEN Register(P, Entry("vectorize", "bare", [Call("vectorize") EXCEPT !.index = index], 0))
    ELSE IF ~target.vectorization_info
    THEN Raise(P, "UnsupportedTarget")
    ELSE Enqueue(add_index_attr(P, index.v, "vectorized"), Cmd("vectorize", <<index.v>>, 0, ""))

\* `for idx in unroll_indices: self.unroll(idx)` (lines 455-456)
RECURSIVE unroll_each(_, _)
unroll_each(P, indices) ==
    IF indices = <<>> \/ P.err # "none" THEN P
    ELSE unroll_each(unroll(P, Val(Head(indices))), Tail(indices))

\* `for vidx in vindices: self.vectorize(vidx)` (lines 458-459)
RECURSIVE vectorize_each(_, _)
vectorize_each(P, vindices) ==
    IF vindices = <<>> \/ P.err # "none" THEN P
    ELSE vectorize_each(vectorize(P, Val(Head(vindices))), Tail(vindices))

\* mutant: only the first vectorize index is looked up among the unroll indices
Conflicting_first_only(vindices, unroll_indices) ==
    vindices # <<>> /\ \E j \in 1 .. Len(unroll_indices) : vindices[1] = unroll_indices[j]

\* `vidx in unroll_indices` for some vidx of vindices (lines 448-450)
Conflicting(vindices, unroll_indices) ==
    \E k \in 1 .. Len(vindices) : \E j \in 1 .. Len(unroll_indices) :
        vindices[k] = unroll_indices[j]

\* Plan.kernelize; list(None) raises TypeError
kernelize(P, a) ==
    IF IsDelayedParameter(a.unroll_indices) \/ IsDelayedParameter(a.vectorize_indices)
    THEN Register(P, Entry("kernelize", "dict",
                [Call("kernelize") EXCEPT !.unroll_indices = a.unroll_indices,
                                          !.vectorize_indices = a.vectorize_indices], 0))
    ELSE IF IsNone(a.vectorize_indices) THEN Raise(P, "TypeError")
    ELSE IF Conflicting(a.vectorize_indices.v, a.unroll_indices.v)
    THEN Raise(P, "ConflictingIndices")
    ELSE IF ~target.vectorization_info THEN Raise(P, "UnsupportedTarget")
    ELSE vectorize_each(unroll_each(P, a.unroll_indices.v), a.vectorize_indices.v)

\* mutant: only the length of the run is tested, not the indices in it
ContiguousAt_length_only(indices, start) == start + Len(indices) <= Len(sched)

\* the contiguity test of Plan.parallelize, for a first index found at position start
ContiguousAt(indices, start) ==
    LET end == start + Len(indices)
    IN ~(end > Len(sched) \/ indices # PySlice(sched, start, end))

\* Plan.parallelize
parallelize(P, a) ==
    LET P1 == IF target.category = "CPU"
              THEN [P EXCEPT !.dynamic_dependencies = @ \cup {"OPENMP"}]
              ELSE P
        indices == a.indices.v
        start == PyIndexOf(sched, indices[1])
    IN IF IsDelayedParameter(a.indices) \/ IsDelayedParameter(a.pin) \/ IsDelayedParameter(a.policy)
       THEN Register(P1, Entry("parallelize", "dict",
                [Call("parallelize") EXCEPT !.indices = a.indices, !.pin = a.pin,
                                            !.policy = a.policy], 0))
       ELSE IF indices = <<>> THEN Raise(P1, "IndexError")
       ELSE IF start < 0 THEN Raise(P1, "ValueError")
       ELSE IF ~ContiguousAt(indices, start) THEN Raise(P1, "NonContiguousIndices")
       ELSE Enqueue(add_index_attrs(P1, indices, "parallelized"),
                    Cmd("parallelize", indices, 0, a.policy.v))

\* --------------------------------------------------------------- Plan.cache

\* a Cache object (delayed = FALSE) or a DelayedCache placeholder (delayed = TRUE);
\* native is cache.native_cache: the context that created the native cache, 0 = unset
CacheObject(delayed, completed, source, index, trigger_index, level, trigger_level, max_elements) ==
    [delayed |-> delayed, completed |-> completed, target |-> source, index |-> index,
     trigger_index |-> trigger_index, level |-> level, trigger_level |-> trigger_level,
     max_elements |-> max_elements, native |-> 0]

\* DelayedCache(plan, target): an incomplete placeholder
DelayedCache(source) == CacheObject(TRUE, FALSE, source, None, None, None, None, None)

\* DelayedCache.complete(cache): the placeholder takes the fields of the concrete cache
complete(placeholder, cache) ==
    [cache EXCEPT !.delayed = TRUE, !.completed = TRUE, !.native = placeholder.native]

\* Python truthiness of an optional int / an optional object
Truthy(a) == a.k = "val" /\ a.v # 0

\* lines 164-165: the call is incomplete
cache_is_delayed(P, a) ==
    \/ IsDelayedParameter(a.index) \/ IsDelayedParameter(a.trigger_index)
    \/ IsDelayedParameter(a.level) \/ IsDelayedParameter(a.trigger_level)
    \/ /\ a.source.kind = "cache"
       /\ P.caches[a.source.id].delayed
       /\ ~P.caches[a.source.id].completed

\* lines 172-187: create the placeholder and store the call
cache_defer(P, a) ==
    LET id == Len(P.caches) + 1
        P1 == [P EXCEPT !.caches = Append(@, DelayedCache(a.source)), !.ret = id]
    IN Register(P1, Entry("cache", "dict", a, id))

\* the result of the level / trigger derivation: the plan (with the tags added and the
\* error raised so far) and the four derived values
Levels(P, index, trigger_index, level, trigger_level) ==
    [P |-> P, index |-> index, trigger_index |-> trigger_index, level |-> level,
     trigger_level |-> trigger_level]

\* mutant: the level of an index is counted from 0, not from 1
cache_level_from_zero(P, a) ==
    IF Truthy(a.level)
    THEN IF ~PyInRange(sched, -a.level.v)
         THEN Levels(Raise(P, "IndexError"), a.index, a.trigger_index, a.level, a.trigger_level)
         ELSE Levels(P, Val(PyItem(sched, -a.level.v)), a.trigger_index, a.level, a.trigger_level)
    ELSE LET P1 == add_index_attr(P, a.index.v, "cache")
             index_pos == PyIndexOf(sched, a.index.v)
         IN IF IsNone(a.index) \/ index_pos < 0
            THEN Levels(Raise(P1, "ValueError"), a.index, a.trigger_index, a.level, a.trigger_level)
            ELSE Levels(P1, a.index, a.trigger_index, Val(Len(sched) - index_pos - 1),
                        a.trigger_level)

\* lines 209-217: the cache level from the index, or the index from the level
cache_level(P, a) ==
    IF Truthy(a.level)
    THEN IF ~PyInRange(sched, -a.level.v)
         THEN Levels(Raise(P, "IndexError"), a.index, a.trigger_index, a.level, a.trigger_level)
         ELSE Levels(P, Val(PyItem(sched, -a.level.v)), a.trigger_index, a.level, a.trigger_level)
    ELSE LET P1 == add_index_attr(P, a.index.v, "cache")
             index_pos == PyIndexOf(sched, a.index.v)
         IN IF IsNone(a.index) \/ index_pos < 0
            THEN Levels(Raise(P1, "ValueError"), a.index, a.trigger_index, a.level, a.trigger_level)
            ELSE Levels(P1, a.index, a.trigger_index, Val(Len(sched) - index_pos), a.trigger_level)

\* lines 219-221: multicaching needs a CONST or INPUT array
multicache_check(R, source) ==
    IF (Truthy(R.trigger_level) \/ ~IsNone(R.trigger_index))
       /\ source.kind = "array" /\ source.role \notin {"CONST", "INPUT"}
    THEN [R EXCEPT !.P = Raise(@, "InvalidMulticacheSource")]
    ELSE R

\* lines 228-241: the trigger level from the trigger index, or the reverse, or the default
cache_trigger(R) ==
    IF ~IsNone(R.trigger_index) /\ ~IsNone(R.trigger_level)
    THEN [R EXCEPT !.P = Raise(@, "ConflictingCacheKeys")]
    ELSE IF IsNone(R.trigger_index) /\ IsNone(R.trigger_level)
    THEN [R EXCEPT !.trigger_index = R.index, !.trigger_level = R.level]
    ELSE IF ~IsNone(R.trigger_level)
    THEN IF ~PyInRange(sched, -R.trigger_level.v)
         THEN [R EXCEPT !.P = Raise(@, "IndexError")]
         ELSE [R EXCEPT !.trigger_index = Val(PyItem(sched, -R.trigger_level.v))]
    ELSE LET P1 == add_index_attr(R.P, R.trigger_index.v, "trigger")
             trigger_index_pos == PyIndexOf(sched, R.trigger_index.v)
         IN IF trigger_index_pos < 0
            THEN [R EXCEPT !.P = Raise(P1, "ValueError")]
            ELSE [R EXCEPT !.P = P1, !.trigger_level = Val(Len(sched) - trigger_index_pos)]

\* lines 243-250: the bounds of the two levels
level_bounds(R) ==
    IF R.level.v > R.trigger_level.v THEN [R EXCEPT !.P = Raise(@, "TriggerBeforeLevel")]
    ELSE IF R.level.v <= 0 THEN [R EXCEPT !.P = Raise(@, "InvalidCacheLevel")]
    ELSE IF R.trigger_level.v <= 0 THEN [R EXCEPT !.P = Raise(@, "InvalidCacheLevel")]
    ELSE R

\* mutant: an index given with a trigger level is not refused
cache_levels_index_with_trigger_level(P, a) ==
    LET R0 == Levels(P, a.index, a.trigger_index, a.level, a.trigger_level)
    IN IF ~IsNone(a.index) /\ ~IsNone(a.level)
       THEN [R0 EXCEPT !.P = Raise(@, "ConflictingCacheKeys")]
       ELSE IF ~IsNone(a.level) /\ (~IsNone(a.index) \/ ~IsNone(a.trigger_index))
       THEN [R0 EXCEPT !.P = Raise(@, "ConflictingCacheKeys")]
       ELSE LET R1 == cache_level(P, a)
                R2 == multicache_check(R1, a.source)
                R3 == cache_trigger(R2)
            IN IF R1.P.err # "none" THEN R1
               ELSE IF R2.P.err # "none" THEN R2
               ELSE IF R3.P.err # "none" THEN R3
               ELSE level_bounds(R3)

\* lines 198-250: the level-based path, taken when max_elements is None
cache_levels(P, a) ==
    LET R0 == Levels(P, a.index, a.trigger_index, a.level, a.trigger_level)
    IN IF ~IsNone(a.index) /\ (~IsNone(a.level) \/ ~IsNone(a.trigger_level))
       THEN [R0 EXCEPT !.P = Raise(@, "ConflictingCacheKeys")]
       ELSE IF ~IsNone(a.level) /\ (~IsNone(a.index) \/ ~IsNone(a.trigger_index))
       THEN [R0 EXCEPT !.P = Raise(@, "ConflictingCacheKeys")]
       ELSE LET R1 == cache_level(P, a)
                R2 == multicache_check(R1, a.source)
                R3 == cache_trigger(R2)
            IN IF R1.P.err # "none" THEN R1
               ELSE IF R2.P.err # "none" THEN R2
               ELSE IF R3.P.err # "none" THEN R3
               ELSE level_bounds(R3)

\* mutant: an outer cache of the same level as the inner one is accepted
hierarchy_check_allows_equal(source, level, trigger_level, max_elements) ==
    IF IsNone(source.max_elements) /\ (IsNone(source.level) \/ IsNone(source.trigger_level))
    THEN "InvalidSourceCache"
    ELSE IF IsNone(source.max_elements) # IsNone(max_elements)
    THEN "HierarchyModeMismatch"
    ELSE IF ~IsNone(source.max_elements)
    THEN IF source.max_elements.v <= max_elements.v THEN "InvalidHierarchyBudget" ELSE "none"
    ELSE IF source.level.v < level.v THEN "InvalidHierarchyLevel"
    ELSE IF source.level.v < trigger_level.v THEN "InvalidHierarchyLevel"
    ELSE "none"

\* mutant: a budget cache may be made of a level cache and the other way round
hierarchy_check_mixed_modes(source, level, trigger_level, max_elements) ==
    IF IsNone(source.max_elements) /\ (IsNone(source.level) \/ IsNone(source.trigger_level))
    THEN "InvalidSourceCache"
    ELSE IF IsNone(source.max_elements) # IsNone(max_elements)
    THEN "none"
    ELSE IF ~IsNone(source.max_elements)
    THEN IF source.max_elements.v <= max_elements.v THEN "InvalidHierarchyBudget" ELSE "none"
    ELSE IF source.level.v <= level.v THEN "InvalidHierarchyLevel"
    ELSE IF source.level.v < trigger_level.v THEN "InvalidHierarchyLevel"
    ELSE "none"

\* lines 252-273: a cache of a cache; the kind of error raised, "none" if none
hierarchy_check(source, level, trigger_level, max_elements) ==
    IF IsNone(source.max_elements) /\ (IsNone(source.level) \/ IsNone(source.trigger_level))
    THEN "InvalidSourceCache"
    ELSE IF IsNone(source.max_elements) # IsNone(max_elements)
    THEN "HierarchyModeMismatch"
    ELSE IF ~IsNone(source.max_elements)
    THEN IF source.max_elements.v <= max_elements.v THEN "InvalidHierarchyBudget" ELSE "none"
    ELSE IF source.level.v <= level.v THEN "InvalidHierarchyLevel"
    ELSE IF source.level.v < trigger_level.v THEN "InvalidHierarchyLevel"
    ELSE "none"

\* mutant: the placeholder is left as it is and the command is given the new cache
cache_create_new_object(P, a, R, _delayed_cache) ==
    LET c == CacheObject(FALSE, TRUE, a.source, R.index, R.trigger_index, R.level,
                         R.trigger_level, a.max_elements)
        id == Len(P.caches) + 1
    IN Enqueue([P EXCEPT !.caches = Append(@, c), !.ret = id], Cmd("add_cache", <<>>, id, ""))

\* lines 275-293: create the cache, complete the placeholder, enqueue the command
cache_create(P, a, R, _delayed_cache) ==
    LET c == CacheObject(FALSE, TRUE, a.source, R.index, R.trigger_index, R.level,
                         R.trigger_level, a.max_elements)
        id == IF _delayed_cache # 0 THEN _delayed_cache ELSE Len(P.caches) + 1
        P1 == IF _delayed_cache # 0
              THEN [P EXCEPT !.caches[id] = complete(@, c)]
              ELSE [P EXCEPT !.caches = Append(@, c)]
    IN Enqueue([P1 EXCEPT !.ret = id], Cmd("add_cache", <<>>, id, ""))

\* mutant: the budget is not counted among the sizing arguments
CountGiven_without_last(args) ==
    Cardinality({i \in 1 .. Len(args) - 1 : ~IsNone(args[i])})

\* the number of arguments that are not None
CountGiven(args) == Cardinality({i \in 1 .. Len(args) : ~IsNone(args[i])})

\* mutant: thrifty is refused before the call is looked at for deferred arguments
cache_thrifty_first(P, a, _delayed_cache) ==
    IF a.thrifty THEN Raise(P, "NotImplemented")
    ELSE IF cache_is_delayed(P, a) THEN cache_defer(P, a)
    ELSE IF CountGiven(<<a.index, a.level, a.max_elements>>) # 1
    THEN Raise(P, "AmbiguousCacheSize")
    ELSE IF ~IsNone(a.max_elements) /\ a.max_elements.v <= 0
    THEN Raise(P, "InvalidMaxElements")
    ELSE LET R == IF IsNone(a.max_elements)
                  THEN cache_levels(P, a)
                  ELSE Levels(P, a.index, a.trigger_index, a.level, a.trigger_level)
             herr == IF a.source.kind = "cache"
                     THEN hierarchy_check(R.P.caches[a.source.id], R.level, R.trigger_level,
                                          a.max_elements)
                     ELSE "none"
         IN IF R.P.err # "none" THEN R.P
            ELSE IF herr # "none" THEN Raise(R.P, herr)
            ELSE cache_create(R.P, a, R, _delayed_cache)

\* Plan.cache
cache(P, a, _delayed_cache) ==
    IF cache_is_delayed(P, a) THEN cache_defer(P, a)
    ELSE IF a.thrifty THEN Raise(P, "NotImplemented")
    ELSE IF CountGiven(<<a.index, a.level, a.max_elements>>) # 1
    THEN Raise(P, "AmbiguousCacheSize")
    ELSE IF ~IsNone(a.max_elements) /\ a.max_elements.v <= 0
    THEN Raise(P, "InvalidMaxElements")
    ELSE LET R == IF IsNone(a.max_elements)
                  THEN cache_levels(P, a)
                  ELSE Levels(P, a.index, a.trigger_index, a.level, a.trigger_level)
             herr == IF a.source.kind = "cache"
                     THEN hierarchy_check(R.P.caches[a.source.id], R.level, R.trigger_level,
                                          a.max_elements)
                     ELSE "none"
         IN IF R.P.err # "none" THEN R.P
            ELSE IF herr # "none" THEN Raise(R.P, herr)
            ELSE cache_create(R.P, a, R, _delayed_cache)

\* ------------------------------------------------- packing and GPU binding

\* Plan.pack_and_embed_buffer on the array a.source
pack_and_embed_buffer(P, a) ==
    IF a.source.role # "CONST" THEN Raise(P, "InvalidRole")
    ELSE Enqueue(P, Cmd("pack_and_embed_buffer", <<>>, 0, ""))

\* Plan.emit_runtime_init_pack on the array a.source
emit_runtime_init_pack(P, a) == Enqueue(P, Cmd("emit_runtime_init_packing", <<>>, 0, ""))

\* Plan.bind; the assert statement is not executed when __debug__ is false
bind(P, a) ==
    IF debug /\ Len(a.indices.v) # Len(a.grid) THEN Raise(P, "AssertionError")
    ELSE IF target.category = "GPU"
    THEN Enqueue(P, [Cmd("bind", a.indices.v, 0, "") EXCEPT !.grid = a.grid])
    ELSE Raise(P, "UnsupportedTarget")

\* ------------------------------------------------------------ delayed calls

\* iterating a DelayedParameter that was stored as the value itself, `for param in
\* params`: the parameter exposes get_value() only, so the iteration raises TypeError
iter_delayed_parameter(param) == [err |-> "TypeError", items |-> <<>>]

\* the keyword arguments of a stored call, every DelayedParameter replaced by its value
resolve_params(a) ==
    [a EXCEPT !.index = Resolve(@), !.trigger_index = Resolve(@), !.level = Resolve(@),
              !.trigger_level = Resolve(@), !.indices = Resolve(@), !.pin = Resolve(@),
              !.policy = Resolve(@), !.unroll_indices = Resolve(@),
              !.vectorize_indices = Resolve(@)]

\* a public method of the plan applied to the arguments of a call record
invoke(P, a, _delayed_cache) ==
    CASE a.fn = "unroll" -> unroll(P, a.index)
      [] a.fn = "vectorize" -> vectorize(P, a.index)
      [] a.fn = "parallelize" -> parallelize(P, a)
      [] a.fn = "cache" -> cache(P, a, _delayed_cache)
      [] a.fn = "kernelize" -> kernelize(P, a)
      [] a.fn = "pack_and_embed_buffer" -> pack_and_embed_buffer(P, a)
      [] a.fn = "emit_runtime_init_pack" -> emit_runtime_init_pack(P, a)
      [] a.fn = "bind" -> bind(P, a)

\* one iteration of the loop of Plan._replay_delayed_calls, on the entry e
replay_delayed_call(P, e) ==
    IF e.bag = "dict"
    THEN invoke(P, resolve_params(e.call), e.cache)
    ELSE LET it == iter_delayed_parameter(e.call.index)
         IN IF it.err # "none" THEN Raise(P, it.err)
            ELSE IF Len(it.items) # 1 THEN Raise(P, "TypeError")
            ELSE invoke(P, [e.call EXCEPT !.index = Resolve(it.items[1])], e.cache)

\* ------------------------------------------------------------ native context

\* mutant: no index has a split factor
HasSplit_never(index) == FALSE

\* lines 477-481: the split factor recorded for an index, if any
HasSplit(index) == split_factor[index] # 0

\* lines 470-495: block and grid sizes of the first min(2, rank) axes; err is
\* "IndivisibleShape" when some axis leaves a remainder
RECURSIVE gpu_dims(_, _)
gpu_dims(i, acc) ==
    IF i > Min(2, Len(nest_shape)) \/ acc.err # "none" THEN acc
    ELSE LET shape == nest_shape[i].shape
             index == nest_shape[i].index
             block == IF HasSplit(index) THEN split_factor[index] ELSE acc.block[i]
             grid == shape \div block
             remainder == shape % block
         IN gpu_dims(i + 1,
                IF remainder # 0
                THEN [acc EXCEPT !.block[i] = block, !.grid[i] = grid, !.err = "IndivisibleShape"]
                ELSE [acc EXCEPT !.block[i] = block, !.grid[i] = grid])

\* Plan._build_native_context: the plan of the context, or the error raised
build_native_context ==
    IF target.category = "GPU"
    THEN LET d == gpu_dims(1, [err |-> "none", grid |-> <<1, 1, 1>>,
                               block |-> <<BASE_BLOCK_DIM, BASE_BLOCK_DIM, 1>>])
         IN [err |-> d.err, kind |-> "gpu_plan", grid |-> d.grid, block |-> d.block]
    ELSE [err |-> "none", kind |-> "plan", grid |-> <<0, 0, 0>>, block |-> <<0, 0, 0>>]

NoContext == [id |-> 0, kind |-> "none", grid |-> <<0, 0, 0>>, block |-> <<0, 0, 0>>]

\* context.mapping: the indices of the schedule have native handles
Mapped(index) == \E p \in 1 .. Len(sched) : sched[p] = index

\* a call made on the native engine by a command: on which context, which operation, the
\* native indices it was given, the cache whose native handle it sets (0 = none), the
\* context that made the parent cache's handle (0 = none) and the scheduling policy
NativeCall(ctx, op, indices, cid, source, policy) ==
    [ctx |-> ctx, op |-> op, indices |-> indices, cache |-> cid, source |-> source,
     policy |-> policy]

\* the optional index of a cache as the list of native indices handed to add_cache
CacheIndices(c) ==
    LET last_in_index == IF ~IsNone(c.index) THEN <<c.index.v>> ELSE <<>>
        trigger_index == IF ~IsNone(c.trigger_index) THEN <<c.trigger_index.v>> ELSE last_in_index
    IN last_in_index \o trigger_index

\* Plan._unroll, _vectorize, _parallelize, _add_cache: the command cmd run against the
\* context ctx; err is the exception raised by a failed lookup
run_command(cs, cmd, ctx) ==
    IF cmd.kind = "add_cache"
    THEN LET c == cs[cmd.cache]
             parent == IF c.target.kind = "cache" THEN cs[c.target.id].native ELSE 0
         IN IF \E k \in 1 .. Len(CacheIndices(c)) : ~Mapped(CacheIndices(c)[k])
            THEN [err |-> "KeyError", call |-> NativeCall(ctx, "add_cache", <<>>, cmd.cache, 0, ""),
                  caches |-> cs]
            ELSE IF c.target.kind = "cache" /\ parent = 0
            THEN [err |-> "AttributeError", call |-> NativeCall(ctx, "add_cache", <<>>, cmd.cache, 0, ""),
                  caches |-> cs]
            ELSE [err |-> "none",
                  call |-> NativeCall(ctx, "add_cache", CacheIndices(c), cmd.cache, parent, ""),
                  caches |-> [cs EXCEPT ![cmd.cache].native = ctx]]
    ELSE IF \E k \in 1 .. Len(cmd.indices) : ~Mapped(cmd.indices[k])
    THEN [err |-> "KeyError", call |-> NativeCall(ctx, cmd.kind, <<>>, 0, 0, ""), caches |-> cs]
    ELSE [err |-> "none",
          call |-> NativeCall(ctx, cmd.kind, cmd.indices, 0, 0,
                              IF cmd.kind = "parallelize"
                              THEN (IF cmd.policy = "dynamic" THEN "DYNAMIC" ELSE "STATIC")
                              ELSE ""),
          caches |-> cs]

\* Plan._bind (lines 412-415): zip(indices, grid) stops at the shorter of the two; the
\* pairs before an index without a native handle have been mapped when KeyError is raised
RECURSIVE run_bind(_, _, _)
run_bind(cmd, ctx, k) ==
    IF k > Min(Len(cmd.indices), Len(cmd.grid)) THEN [err |-> "none", calls |-> <<>>]
    ELSE IF ~Mapped(cmd.indices[k]) THEN [err |-> "KeyError", calls |-> <<>>]
    ELSE LET rest == run_bind(cmd, ctx, k + 1)
         IN [err |-> rest.err,
             calls |-> <<NativeCall(ctx, "map_index_to_processor", <<cmd.indices[k]>>, 0, 0,
                                    cmd.grid[k])>> \o rest.calls]

\* cmd(context): the native calls a command makes, in order, up to the exception if any
native_calls(cs, cmd, ctx) ==
    IF cmd.kind = "bind"
    THEN LET b == run_bind(cmd, ctx, 1)
         IN [err |-> b.err, calls |-> b.calls, caches |-> cs]
    ELSE LET r == run_command(cs, cmd, ctx)
         IN [err |-> r.err, calls |-> IF r.err = "none" THEN <<r.call>> ELSE <<>>,
             caches |-> r.caches]

\* ------------------------------------------------------------------- inputs

\* the index tokens in rotated order, so that no token equals its position or its level
Rotation(n) == [p \in 1 .. n |-> (p % n) + 1]

\* the schedule holds every token, or every token but one (which is then foreign to it)
Orders == {Rotation(NumIndices), SubSeq(Rotation(NumIndices), 1, NumIndices - 1)}

HOST == [category |-> "CPU", vectorization_info |-> TRUE]
Targets == {HOST,
            [category |-> "CPU", vectorization_info |-> FALSE],
            [category |-> "GPU", vectorization_info |-> FALSE]}

\* the extents of the iteration space tried on a GPU target
Extents == {30, 32}

\* the indices of the nest, in the nest's own (token) order
RECURSIVE NestIndices(_, _)
NestIndices(order, i) ==
    IF i > NumIndices THEN <<>>
    ELSE (IF \E p \in 1 .. Len(order) : order[p] = i THEN <<i>> ELSE <<>>)
         \o NestIndices(order, i + 1)

NestShape(order, extent) ==
    [k \in 1 .. Len(NestIndices(order, 1)) |->
        [shape |-> extent, index |-> NestIndices(order, 1)[k]]]

EmptyPlan(deps) == PlanState(<<>>, <<>>, [i \in 0 .. NumIndices |-> <<>>], deps, <<>>)

\* the record of the most recent call: its arguments, the exception it raised, what it
\* returned, the plan before it; for a build, whether the wrapper has returned and how
\* long the log of native calls was when it began
NoCall ==
    [call |-> Call("none"), err |-> "none", ret |-> 0, pre |-> EmptyPlan({}),
     done |-> FALSE, base |-> 0]

\* Plan.__init__: the plan is empty, and nothing was called or built
FreshPlan ==
    /\ commands = <<>>
    /\ delayed_calls = <<>>
    /\ index_attrs = [i \in 0 .. NumIndices |-> <<>>]
    /\ dynamic_dependencies = IF target.category = "GPU" THEN {"VULKAN"} ELSE {}
    /\ caches = <<>>
    /\ pc = "idle"
    /\ rp = 0
    /\ builds = 0
    /\ context = NoContext
    /\ exec_log = <<>>
    /\ replay_log = <<>>
    /\ origin = <<>>
    /\ raised = "none"
    /\ last = NoCall
    /\ ncalls = 0
    /\ direct = EmptyPlan(IF target.category = "GPU" THEN {"VULKAN"} ELSE {})

\* a schedule without splits, of one extent on every axis
PlainNest ==
    /\ sched \in Orders
    /\ split_factor = [i \in Indices |-> 0]
    /\ nest_shape \in {NestShape(sched, e) :
                         e \in IF target.category = "GPU" THEN Extents ELSE {32}}

\* Plan.__init__ on a schedule and a target
InitOn(targets) ==
    /\ target \in targets
    /\ debug = TRUE
    /\ PlainNest
    /\ FreshPlan

Init == InitOn(Targets)

\* ------------------------------------------------------------------ actions

\* the tags of the commands a call appended: pending call `call` of replay pass `pass`
\* (0, 0 for a call made directly by the user)
Tags(P, call, pass) ==
    origin \o [k \in 1 .. Len(P.commands) - Len(commands) |-> [call |-> call, pass |-> pass]]

\* the fields of the plan object take the values of P
Becomes(P) ==
    /\ commands' = P.commands
    /\ delayed_calls' = P.delayed_calls
    /\ index_attrs' = P.index_attrs
    /\ dynamic_dependencies' = P.dynamic_dependencies
    /\ caches' = P.caches

\* the host thread is in no call and the run may make another call
CanCall == pc = "idle" /\ ncalls < MaxCalls

\* the user calls a public method with the arguments a; an exception ends the run, and
\* so does the call when it is the one a run is made to observe (probe)
PublicCall(a, probe) ==
    /\ LET P == invoke(Self, a, 0)
       IN /\ Becomes(P)
          /\ origin' = Tags(P, 0, 0)
          /\ raised' = P.err
          /\ pc' = IF P.err # "none" THEN "halt" ELSE IF probe THEN "end" ELSE "idle"
          /\ last' = [NoCall EXCEPT !.call = a, !.err = P.err, !.ret = P.ret, !.pre = Self]
    /\ ncalls' = ncalls + 1
    /\ direct' = IF direct.err = "none" THEN invoke(direct, resolve_params(a), 0) ELSE direct
    /\ UNCHANGED <<sched, split_factor, nest_shape, target, debug, rp, builds, context, exec_log,
                   replay_log>>

\* the arguments tried in the runs that follow one plan through description and build
UnrollCalls == {[Call("unroll") EXCEPT !.index = x] : x \in {Val(sched[1]), Delayed(sched[1])}}

VectorizeCalls ==
    {[Call("vectorize") EXCEPT !.index = x] : x \in {Val(sched[2]), Delayed(sched[2])}}

ParallelizeCalls ==
    {[Call("parallelize") EXCEPT !.indices = x] :
        x \in {Val(<<sched[1], sched[2]>>), Delayed(<<sched[1], sched[2]>>),
               Val(<<sched[2], sched[1]>>)}}

Sources == {ArraySource(r) : r \in Roles} \cup {CacheSource(c) : c \in 1 .. Len(caches)}

CacheCalls ==
    LET sources == {ArraySource("CONST")} \cup {CacheSource(c) : c \in 1 .. Len(caches)}
    IN {[Call("cache") EXCEPT !.source = s, !.level = l] :
            s \in sources, l \in {Val(1), Val(2), Delayed(1), Delayed(2)}}
       \cup {[Call("cache") EXCEPT !.source = s, !.max_elements = Val(MaxElems)] :
                s \in sources}

Unroll == CanCall /\ \E a \in UnrollCalls : PublicCall(a, FALSE)
Vectorize == CanCall /\ \E a \in VectorizeCalls : PublicCall(a, FALSE)
Parallelize == CanCall /\ \E a \in ParallelizeCalls : PublicCall(a, FALSE)
Cache == CanCall /\ \E a \in CacheCalls : PublicCall(a, FALSE)

\* nest_wrapper_fn is invoked (lines 540-545): the replay of the delayed calls begins
BuildStart ==
    /\ pc = "idle"
    /\ builds < MaxBuilds
    /\ builds' = builds + 1
    /\ pc' = "replay"
    /\ rp' = 1
    /\ last' = [NoCall EXCEPT !.call = Call("build"), !.pre = Self, !.base = Len(exec_log)]
    /\ UNCHANGED <<sched, split_factor, nest_shape, target, debug, commands, delayed_calls,
                   index_attrs, dynamic_dependencies, caches, context, exec_log, replay_log,
                   origin, raised, ncalls, direct>>

\* mutant: the registry is walked from its newest entry to its oldest
delayed_call_at_reversed(k) == Len(delayed_calls) - k + 1

\* `for delayed_call in self._delayed_calls`: the entry visited by the k-th iteration (a
\* dict is iterated in insertion order)
delayed_call_at(k) == k

\* mutant: the queue is walked from its newest command to its oldest
command_at_reversed(k) == Len(commands) - k + 1

\* `for cmd in self._commands`: the command visited by the k-th iteration
command_at(k) == k

\* mutant: a replay that fails takes back what the pass had enqueued
ReplayStep_rolls_back ==
    /\ pc = "replay"
    /\ rp <= Len(delayed_calls)
    /\ LET P == replay_delayed_call(Self, delayed_calls[delayed_call_at(rp)])
           err == IF P.err # "none" THEN P.err
                  ELSE IF Len(P.delayed_calls) # Len(delayed_calls) THEN "RuntimeError"
                  ELSE "none"
           Q == IF err # "none" THEN [P EXCEPT !.commands = last.pre.commands] ELSE P
       IN /\ Becomes(Q)
          /\ origin' = IF err # "none" THEN SubSeq(origin, 1, Len(last.pre.commands))
                       ELSE Tags(P, delayed_call_at(rp), builds)
          /\ raised' = err
          /\ pc' = IF err # "none" THEN "halt" ELSE "replay"
          /\ last' = [last EXCEPT !.err = err]
    /\ replay_log' = Append(replay_log, [pass |-> builds, call |-> delayed_call_at(rp)])
    /\ rp' = rp + 1
    /\ UNCHANGED <<sched, split_factor, nest_shape, target, debug, builds, context, exec_log,
                   ncalls, direct>>

\* Plan._replay_delayed_calls (lines 506-519): one iteration of its loop.  A dict that
\* changed size under the loop raises RuntimeError at the next iteration.
ReplayStep ==
    /\ pc = "replay"
    /\ rp <= Len(delayed_calls)
    /\ LET P == replay_delayed_call(Self, delayed_calls[delayed_call_at(rp)])
           err == IF P.err # "none" THEN P.err
                  ELSE IF Len(P.delayed_calls) # Len(delayed_calls) THEN "RuntimeError"
                  ELSE "none"
       IN /\ Becomes(P)
          /\ origin' = Tags(P, delayed_call_at(rp), builds)
          /\ raised' = err
          /\ pc' = IF err # "none" THEN "halt" ELSE "replay"
          /\ last' = [last EXCEPT !.err = err]
    /\ replay_log' = Append(replay_log, [pass |-> builds, call |-> delayed_call_at(rp)])
    /\ rp' = rp + 1
    /\ UNCHANGED <<sched, split_factor, nest_shape, target, debug, builds, context, exec_log,
                   ncalls, direct>>

\* lines 547-549: a new NativeLoopNestContext and Plan._build_native_context on it
BuildContext ==
    /\ pc = "replay"
    /\ rp > Len(delayed_calls)
    /\ LET c == build_native_context
       IN /\ context' = IF c.err = "none"
                        THEN [id |-> builds, kind |-> c.kind, grid |-> c.grid, block |-> c.block]
                        ELSE context
          /\ raised' = c.err
          /\ pc' = IF c.err # "none" THEN "halt" ELSE "exec"
          /\ last' = [last EXCEPT !.err = c.err]
    /\ rp' = 1
    /\ UNCHANGED <<sched, split_factor, nest_shape, target, debug, commands, delayed_calls,
                   index_attrs, dynamic_dependencies, caches, builds, exec_log, replay_log,
                   origin, ncalls, direct>>

\* Plan._build_with_native_context (lines 502-504): one iteration of its loop
ExecStep ==
    /\ pc = "exec"
    /\ rp <= Len(commands)
    /\ LET r == native_calls(caches, commands[command_at(rp)], context.id)
       IN /\ caches' = r.caches
          /\ exec_log' = exec_log \o r.calls
          /\ raised' = r.err
          /\ pc' = IF r.err # "none" THEN "halt" ELSE "exec"
          /\ last' = [last EXCEPT !.err = r.err]
    /\ rp' = rp + 1
    /\ UNCHANGED <<sched, split_factor, nest_shape, target, debug, commands, delayed_calls,
                   index_attrs, dynamic_dependencies, builds, context, replay_log, origin,
                   ncalls, direct>>

\* nest_wrapper_fn returns
BuildDone ==
    /\ pc = "exec"
    /\ rp > Len(commands)
    /\ pc' = "idle"
    /\ rp' = 0
    /\ last' = [last EXCEPT !.done = TRUE]
    /\ UNCHANGED <<sched, split_factor, nest_shape, target, debug, commands, delayed_calls,
                   index_attrs, dynamic_dependencies, caches, builds, context, exec_log,
                   replay_log, origin, raised, ncalls, direct>>

\* the arguments tried on the call a run is made to observe
RECURSIVE IndexLists(_)
IndexLists(n) ==
    IF n = 0 THEN {<<>>}
    ELSE IndexLists(n - 1)
         \cup {Append(l, i) : l \in {m \in IndexLists(n - 1) : Len(m) = n - 1}, i \in Indices}

ParallelizeProbes ==
    {[Call("parallelize") EXCEPT !.indices = x, !.policy = y, !.pin = z] :
        x \in {Val(l) : l \in IndexLists(MaxRun)} \cup {Delayed(l) : l \in IndexLists(MaxRun)},
        y \in {Val("static"), Val("dynamic"), Delayed("dynamic")},
        z \in {None, Delayed(0)}}

OptIndex == {None} \cup {Val(i) : i \in Indices}
OptLevel == {None} \cup {Val(l) : l \in -1 .. NumIndices}
OptElements == {None} \cup {Val(n) : n \in 0 .. MaxElems}

\* calls with a DelayedParameter in any of the four places that take one
CacheDeferredProbes ==
    {a \in {[Call("cache") EXCEPT !.source = s, !.index = i, !.trigger_index = ti,
                                  !.level = l, !.trigger_level = tl, !.max_elements = m,
                                  !.thrifty = t] :
                s \in Sources,
                i \in {None, Val(sched[1]), Delayed(sched[1])},
                ti \in {None, Val(sched[2]), Delayed(sched[2])},
                l \in {None, Val(0), Delayed(1)},
                tl \in {None, Val(1), Delayed(2)},
                m \in {None, Val(0)}, t \in BOOLEAN} :
        \E f \in {"index", "trigger_index", "level", "trigger_level"} :
            IsDelayedParameter(a[f])}

CacheProbes ==
    {[Call("cache") EXCEPT !.source = s, !.index = i, !.trigger_index = ti, !.level = l,
                           !.trigger_level = tl, !.max_elements = m, !.thrifty = t] :
        s \in Sources, i \in OptIndex, ti \in OptIndex, l \in OptLevel \cup {Delayed(1)},
        tl \in OptLevel, m \in OptElements, t \in BOOLEAN}
    \cup CacheDeferredProbes

ParallelizeProbe == CanCall /\ \E a \in ParallelizeProbes : PublicCall(a, TRUE)
CacheProbe == CanCall /\ \E a \in CacheProbes : PublicCall(a, TRUE)

\* the first cache of a plan: of a CONST array, by level (also the outermost level, and
\* deferred levels) or by budget
CacheSeeds ==
    CacheCalls \cup {[Call("cache") EXCEPT !.source = ArraySource("CONST"),
                                           !.level = Val(NumIndices)]}

CacheSeed == caches = <<>> /\ CanCall /\ \E a \in CacheSeeds : PublicCall(a, FALSE)

Next ==
    \/ Unroll
    \/ Vectorize
    \/ Parallelize
    \/ Cache
    \/ BuildStart
    \/ ReplayStep
    \/ BuildContext
    \/ ExecStep
    \/ BuildDone

Spec == Init /\ [][Next]_vars

\* runs that end with one parallelize call, over all its arguments
NextParallelize == Parallelize \/ ParallelizeProbe

SpecParallelize == Init /\ [][NextParallelize]_vars

\* runs on the default target that end with one cache call, over all its arguments,
\* made on a fresh plan or on a plan that holds one cache
NextCache == CacheSeed \/ CacheProbe

SpecCache == InitOn({HOST}) /\ [][NextCache]_vars

\* the arguments tried on one vectorize, kernelize or packing call
VectorizeProbes ==
    {[Call("vectorize") EXCEPT !.index = x] :
        x \in {Val(i) : i \in Indices} \cup {Delayed(i) : i \in Indices}}

KernelLists == IndexLists(MaxKernel)

KernelizeProbes ==
    {[Call("kernelize") EXCEPT !.unroll_indices = u, !.vectorize_indices = v] :
        u \in {Val(l) : l \in KernelLists} \cup {Delayed(l) : l \in KernelLists},
        v \in {NoList} \cup {One(i) : i \in Indices} \cup {Val(l) : l \in KernelLists}
                \cup {Delayed(l) : l \in KernelLists}}

PackProbes ==
    {[Call(f) EXCEPT !.source = ArraySource(r)] :
        f \in {"pack_and_embed_buffer", "emit_runtime_init_pack"}, r \in Roles}

VectorizeProbe == CanCall /\ \E a \in VectorizeProbes : PublicCall(a, TRUE)
KernelizeProbe == CanCall /\ \E a \in KernelizeProbes : PublicCall(a, TRUE)
PackProbe == CanCall /\ \E a \in PackProbes : PublicCall(a, TRUE)

\* runs that end with one vectorize, kernelize or packing call, over all its arguments,
\* made on a fresh plan or after unroll calls
NextCalls == Unroll \/ VectorizeProbe \/ KernelizeProbe \/ PackProbe

SpecCalls == Init /\ [][NextCalls]_vars

\* the GPU execution units a grid names, and the grids tried
Processors == {"BLOCK_X", "THREAD_X"}

RECURSIVE Grids(_)
Grids(n) ==
    IF n = 0 THEN {<<>>}
    ELSE Grids(n - 1)
         \cup {Append(g, x) : g \in {h \in Grids(n - 1) : Len(h) = n - 1}, x \in Processors}

BindCalls ==
    {[Call("bind") EXCEPT !.indices = Val(l), !.grid = g] :
        l \in IndexLists(MaxBind), g \in Grids(MaxBind)}

\* the first bind of a plan
Bind == CanCall /\ commands = <<>> /\ \E a \in BindCalls : PublicCall(a, FALSE)

\* a plan on any target, run with or without assert statements
InitBind ==
    /\ target \in Targets
    /\ debug \in BOOLEAN
    /\ PlainNest
    /\ FreshPlan

\* runs that make one bind call, over all its arguments, and build the plan
NextBind == Bind \/ BuildStart \/ BuildContext \/ ExecStep \/ BuildDone

SpecBind == InitBind /\ [][NextBind]_vars

\* schedules of rank 1, 2 and 3, split factors and extents tried for the GPU inference
GpuOrders == Orders \cup {SubSeq(Rotation(NumIndices), 1, 1)}
Splits == {0, 8, 16}
GpuExtents == {24, 30, 32}

\* the first two axes of the nest take any extent and their indices any split factor; an
\* axis beyond them has an extent no block size divides
InitGpu ==
    /\ target \in Targets
    /\ debug = TRUE
    /\ sched \in GpuOrders
    /\ \E e \in [1 .. 2 -> GpuExtents], f \in [1 .. 2 -> Splits] :
          LET nest == NestIndices(sched, 1)
          IN /\ nest_shape = [k \in 1 .. Len(nest) |->
                                 [shape |-> IF k <= 2 THEN e[k] ELSE 30, index |-> nest[k]]]
             /\ split_factor = [i \in Indices |->
                                   IF \E k \in 1 .. Min(2, Len(nest)) : nest[k] = i
                                   THEN f[CHOOSE k \in 1 .. Min(2, Len(nest)) : nest[k] = i]
                                   ELSE 0]
    /\ FreshPlan

\* unroll of the outermost index, a command every target accepts
UnrollSeed ==
    CanCall /\ PublicCall([Call("unroll") EXCEPT !.index = Val(sched[1])], FALSE)

\* runs that enqueue commands and build the plan, over the shapes and split factors
NextGpu == UnrollSeed \/ BuildStart \/ BuildContext \/ ExecStep \/ BuildDone

SpecGpu == InitGpu /\ [][NextGpu]_vars

\* schedules of rank 1 .. NumIndices - 1, short enough for a chain of caches to run out
\* of levels
ChainOrders == {SubSeq(Rotation(NumIndices), 1, r) : r \in 1 .. NumIndices - 1}

InitChain ==
    /\ target = HOST
    /\ debug = TRUE
    /\ sched \in ChainOrders
    /\ split_factor = [i \in Indices |-> 0]
    /\ nest_shape = NestShape(sched, 32)
    /\ FreshPlan

\* the first cache is made of a CONST array, every later one of a cache made before; by
\* level (concrete or deferred), by its outermost index or by budget
ChainCalls ==
    LET sources == IF caches = <<>> THEN {ArraySource("CONST")}
                   ELSE {CacheSource(c) : c \in 1 .. Len(caches)}
        levels == {Val(l) : l \in 1 .. Len(sched)} \cup {Delayed(l) : l \in 1 .. Len(sched)}
    IN {[Call("cache") EXCEPT !.source = s, !.level = l] : s \in sources, l \in levels}
       \cup {[Call("cache") EXCEPT !.source = s, !.index = Val(sched[1])] : s \in sources}
       \cup {[Call("cache") EXCEPT !.source = s, !.max_elements = Val(m)] :
                s \in sources, m \in 1 .. MaxElems}

\* one more cache call, while the plan holds no more caches than the schedule has levels
CacheChain ==
    /\ pc = "idle"
    /\ Len(caches) <= Len(sched)
    /\ \E a \in ChainCalls : PublicCall(a, FALSE)

\* runs that nest caches as deep as they can, with builds in between
NextChain == CacheChain \/ BuildStart \/ ReplayStep \/ BuildContext \/ ExecStep \/ BuildDone

SpecChain == InitChain /\ [][NextChain]_vars

\* ------------------------------------------------------------------- claims

\* the build wrapper has returned and nothing was called since
BuildCompleted == last.call.fn = "build" /\ last.done

\* the native calls made since the current invocation of the wrapper began
BuildLog == SubSeq(exec_log, last.base + 1, Len(exec_log))

\* the native call e is the one the command cmd makes
RunsCommand(e, cmd) ==
    /\ e.op = cmd.kind
    /\ e.cache = cmd.cache
    /\ cmd.kind # "add_cache" => e.indices = cmd.indices

\* C1: during a build the commands run in queue order, each once, all against the one
\* context of that build: the native calls of the build are, in order, the calls of the
\* first commands of the queue, and when the wrapper returns they are those of the whole
\* queue.
C1_ExecutesInQueueOrder ==
    (last.call.fn = "build" /\ (pc = "exec" \/ BuildCompleted)) =>
        /\ Len(BuildLog) <= Len(commands)
        /\ \A k \in 1 .. Len(BuildLog) :
              RunsCommand(BuildLog[k], commands[k]) /\ BuildLog[k].ctx = context.id
        /\ \A k \in 1 .. Len(exec_log) - Len(BuildLog) : exec_log[k].ctx # context.id
        /\ BuildCompleted => Len(BuildLog) = Len(commands)

\* a build returned after running at least two different commands
C1_Witness ==
    /\ BuildCompleted
    /\ Len(commands) >= 2
    /\ commands[1] # commands[2]
    /\ Len(BuildLog) = Len(commands)

\* C2: once the delayed calls of the first build have been replayed, the queue and the
\* index tags are those the same calls produce when given the concrete values.
C2_DeferredEqualsDirect ==
    (last.call.fn = "build" /\ builds = 1 /\ direct.err = "none"
        /\ (pc = "exec" \/ pc = "halt" \/ BuildCompleted)) =>
        /\ commands = direct.commands
        /\ index_attrs = direct.index_attrs

\* C3: no pending call is invoked twice by the replays of one plan.
C3_ResolvedOnce ==
    \A i, j \in 1 .. Len(replay_log) :
        replay_log[i].call = replay_log[j].call => i = j

\* C4: once a build has begun the queue does not grow, and there is one build only.
C4_NoEnqueueAfterBuildBegan ==
    [][builds >= 1 => (commands' = commands /\ builds' = builds)]_vars

\* the kind of command a method enqueues
CommandKind(fn) == IF fn = "cache" THEN "add_cache" ELSE fn

\* C5: a replay invokes the pending calls in registration order (their order in the
\* registry), and the commands one replay appends lie in the queue in the order of the
\* pending calls they come from, each of the kind its pending call enqueues.
C5_ReplayInRegistrationOrder ==
    /\ \A i, j \in 1 .. Len(replay_log) :
          (i < j /\ replay_log[i].pass = replay_log[j].pass)
              => replay_log[i].call < replay_log[j].call
    /\ \A i, j \in 1 .. Len(origin) :
          (origin[i].pass # 0 /\ origin[i].pass = origin[j].pass
              /\ origin[i].call < origin[j].call) => i < j
    /\ \A i \in 1 .. Len(origin) :
          origin[i].pass # 0 =>
              commands[i].kind = CommandKind(delayed_calls[origin[i].call].fn)

\* a replay has invoked two pending calls of different kinds, and both enqueued
C5_Witness ==
    \E i, j \in 1 .. Len(origin) :
        /\ origin[i].pass = 1 /\ origin[j].pass = 1
        /\ origin[i].call = 1 /\ origin[j].call = 2
        /\ delayed_calls[1].fn # delayed_calls[2].fn

\* ------------------------------------------------ claims about one call

\* the arguments of the most recent call, and the plan before it
Args == last.call
Before == last.pre

\* the call left the queue, or the caches, as they were
QueueUnchanged == commands = Before.commands
CachesUnchanged == caches = Before.caches

\* the indices are ScheduleOrder[s : s + len(indices)] for some position s
IsContiguousRun(indices) ==
    \E s \in 1 .. Len(sched) :
        \A k \in 1 .. Len(indices) :
            s + k - 1 <= Len(sched) /\ sched[s + k - 1] = indices[k]

ConcreteParallelize ==
    /\ Args.fn = "parallelize"
    /\ Args.indices.k = "val" /\ Args.pin.k # "delayed" /\ Args.policy.k = "val"

\* C6: parallelize with concrete arguments, on a non-empty index list whose first index
\* is in the schedule, succeeds iff the list is a contiguous run of the schedule order;
\* it then appends exactly the one parallelize command, and otherwise it fails with
\* NonContiguousIndices and leaves the queue as it was.
C6_ParallelizeContiguousRun ==
    (ConcreteParallelize /\ Args.indices.v # <<>> /\ Mapped(Args.indices.v[1])) =>
        /\ last.err = "none" <=> IsContiguousRun(Args.indices.v)
        /\ IsContiguousRun(Args.indices.v) =>
              commands = Append(Before.commands,
                                Cmd("parallelize", Args.indices.v, 0, Args.policy.v))
        /\ ~IsContiguousRun(Args.indices.v) =>
              last.err = "NonContiguousIndices" /\ QueueUnchanged

\* parallelize succeeded on a run of two indices
C6_Witness ==
    /\ ConcreteParallelize
    /\ Len(Args.indices.v) = 2
    /\ last.err = "none"
    /\ Len(commands) = Len(Before.commands) + 1

\* the four values a cache carries for its position
Position(c) == <<c.index, c.level, c.trigger_index, c.trigger_level>>

\* a cache call none of whose arguments is deferred and whose source is complete
ConcreteCache ==
    /\ Args.fn = "cache"
    /\ Args.index.k # "delayed" /\ Args.trigger_index.k # "delayed"
    /\ Args.level.k # "delayed" /\ Args.trigger_level.k # "delayed"
    /\ Args.source.kind = "cache" => Before.caches[Args.source.id].completed

\* a cache call that gives nothing but a source and `given`, one sizing argument
OnlySizing(given) ==
    /\ ConcreteCache /\ ~Args.thrifty
    /\ Cardinality({f \in {"index", "level", "max_elements", "trigger_index", "trigger_level"} :
                       ~IsNone(Args[f])}) = 1
    /\ ~IsNone(Args[given])

\* the same call on the same plan with the sizing given the other way
SameCallWith(field, value) ==
    cache(Before, [Call("cache") EXCEPT !.source = Args.source, ![field] = value], 0)

\* C7: level and index are two views of one position.  cache(source, level = L) with
\* 1 <= L <= len(order) and cache(source, index = order[len(order) - L]) end the same
\* way (both succeed on an array), and the caches they make carry the same index, level,
\* trigger_index and trigger_level, with index = order[len(order) - L] and level = L.
C7_LevelAndIndexAgree ==
    /\ (OnlySizing("level") /\ Args.level.v \in 1 .. Len(sched)) =>
          LET L == Args.level.v
              i == sched[Len(sched) - L + 1]
              other == SameCallWith("index", Val(i))
          IN /\ other.err = last.err
             /\ Args.source.kind = "array" => last.err = "none"
             /\ last.err = "none" =>
                   /\ caches[last.ret].index = Val(i)
                   /\ caches[last.ret].level = Val(L)
                   /\ Position(other.caches[other.ret]) = Position(caches[last.ret])
    /\ (OnlySizing("index") /\ Mapped(Args.index.v)) =>
          LET L == CHOOSE l \in 1 .. Len(sched) : sched[Len(sched) - l + 1] = Args.index.v
              other == SameCallWith("level", Val(L))
          IN /\ other.err = last.err
             /\ Args.source.kind = "array" => last.err = "none"
             /\ last.err = "none" =>
                   /\ caches[last.ret].level = Val(L)
                   /\ Position(other.caches[other.ret]) = Position(caches[last.ret])

\* a cache was made from a level above 1 alone
C7_Witness ==
    /\ OnlySizing("level")
    /\ Args.level.v = 2
    /\ last.err = "none"
    /\ caches[last.ret].index = Val(sched[Len(sched) - 1])

\* how many of index, level, max_elements the call gives
SizingGiven ==
    (IF IsNone(Args.index) THEN 0 ELSE 1) + (IF IsNone(Args.level) THEN 0 ELSE 1)
        + (IF IsNone(Args.max_elements) THEN 0 ELSE 1)

\* C8 as claimed: every cache call that gives none, or two or more, of index, level
\* and max_elements fails with AmbiguousCacheSize, makes no cache and enqueues nothing.
C8_AnyCallAmbiguousSize ==
    (Args.fn = "cache" /\ SizingGiven # 1) =>
        last.err = "AmbiguousCacheSize" /\ CachesUnchanged /\ QueueUnchanged

\* C8 amended: a cache call with no deferred argument and a complete source that gives
\* none, or two or more, of index, level and max_elements fails, makes no cache and
\* enqueues nothing; it fails with AmbiguousCacheSize when thrifty is unset and with
\* NotImplemented when thrifty is set.
C8_ConcreteCallAmbiguousSize ==
    (ConcreteCache /\ SizingGiven # 1) =>
        /\ last.err = IF Args.thrifty THEN "NotImplemented" ELSE "AmbiguousCacheSize"
        /\ CachesUnchanged
        /\ QueueUnchanged

\* a call that gives both a level and a budget was refused
C8_Witness ==
    /\ ConcreteCache /\ ~Args.thrifty
    /\ ~IsNone(Args.level) /\ ~IsNone(Args.max_elements) /\ IsNone(Args.index)
    /\ last.err = "AmbiguousCacheSize"

LevelOf(i) == Len(sched) - PyIndexOf(sched, i)

\* a level-based cache call whose position and trigger are given without conflict and
\* lie in the schedule: by level (and trigger level), or by index (and trigger index)
WellFormedLevels ==
    /\ ConcreteCache /\ ~Args.thrifty /\ IsNone(Args.max_elements)
    /\ \/ /\ ~IsNone(Args.level) /\ IsNone(Args.index) /\ IsNone(Args.trigger_index)
          /\ Args.level.v \in 1 .. Len(sched)
          /\ ~IsNone(Args.trigger_level) => Args.trigger_level.v \in 1 .. Len(sched)
       \/ /\ ~IsNone(Args.index) /\ IsNone(Args.level) /\ IsNone(Args.trigger_level)
          /\ Mapped(Args.index.v)
          /\ ~IsNone(Args.trigger_index) => Mapped(Args.trigger_index.v)

\* the level and the trigger level such a call resolves to
ResolvedLevel == IF IsNone(Args.level) THEN LevelOf(Args.index.v) ELSE Args.level.v
ResolvedTrigger ==
    IF ~IsNone(Args.trigger_level) THEN Args.trigger_level.v
    ELSE IF ~IsNone(Args.trigger_index) THEN LevelOf(Args.trigger_index.v)
    ELSE ResolvedLevel

InputBuffer == Args.source.kind = "array" /\ Args.source.role \in {"CONST", "INPUT"}

\* C10: multi-level fill is permitted only for a buffer of role CONST or INPUT.  A cache
\* call whose resolved trigger level is greater than its level and whose source is
\* anything else (a buffer of another role, or another cache) fails with
\* InvalidMulticacheSource, and a call whose trigger equals its own level is not
\* refused with InvalidMulticacheSource.
C10_MultiLevelFillNeedsInputBuffer ==
    WellFormedLevels =>
        /\ (ResolvedTrigger > ResolvedLevel /\ ~InputBuffer) =>
              last.err = "InvalidMulticacheSource"
        /\ (ResolvedTrigger = ResolvedLevel) => last.err # "InvalidMulticacheSource"

\* a call that names its own level as the trigger, on a buffer of another role, was
\* refused on account of the role
C10_SameLevelRefused ==
    /\ WellFormedLevels
    /\ Args.source.kind = "array" /\ ~InputBuffer
    /\ ResolvedTrigger = ResolvedLevel
    /\ last.err = "InvalidMulticacheSource"

\* the cache given as source, and the sizing modes of the two caches
Outer == Before.caches[Args.source.id]
OuterBudget == ~IsNone(Outer.max_elements)
InnerBudget == ~IsNone(Args.max_elements)

\* the same call on the same plan, made on a CONST array instead of its source
OnBuffer == cache(Before, [Args EXCEPT !.source = ArraySource("CONST")], 0)

\* C11: a cache of a cache.  (a) It succeeds only if outer and inner use the same sizing
\* mode and, budget-based, outer.max_elements > inner.max_elements and, level-based,
\* outer.level > inner.level and outer.level >= inner.trigger_level.  (b) A call that is
\* valid on a buffer fails on a cache exactly when one of these is broken: with
\* HierarchyModeMismatch for the modes, else InvalidHierarchyBudget for the budgets, else
\* InvalidHierarchyLevel for the levels, making no cache and enqueueing nothing.  (c) Outer
\* level 3 with inner level 2 succeeds; outer level 2 with inner level 3 fails with
\* InvalidHierarchyLevel.
C11_HierarchyValidation ==
    (ConcreteCache /\ Args.source.kind = "cache") =>
        /\ last.err = "none" =>
              /\ OuterBudget = InnerBudget
              /\ InnerBudget => Outer.max_elements.v > Args.max_elements.v
              /\ ~InnerBudget =>
                    /\ Outer.level.v > caches[last.ret].level.v
                    /\ Outer.level.v >= caches[last.ret].trigger_level.v
        /\ OnBuffer.err = "none" =>
              LET inner == OnBuffer.caches[OnBuffer.ret]
              IN /\ last.err =
                       IF OuterBudget # InnerBudget THEN "HierarchyModeMismatch"
                       ELSE IF InnerBudget
                       THEN (IF Outer.max_elements.v > inner.max_elements.v
                             THEN "none" ELSE "InvalidHierarchyBudget")
                       ELSE IF Outer.level.v > inner.level.v
                               /\ Outer.level.v >= inner.trigger_level.v
                       THEN "none" ELSE "InvalidHierarchyLevel"
                 /\ last.err # "none" => QueueUnchanged /\ CachesUnchanged
        /\ (OnlySizing("level") /\ Outer.level = Val(3) /\ Args.level = Val(2)) =>
              last.err = "none"
        /\ (OnlySizing("level") /\ Outer.level = Val(2) /\ Args.level = Val(3)
               /\ Len(sched) >= 3) =>
              last.err = "InvalidHierarchyLevel"

\* a cache of level 2 was made of a cache of level 3
C11_Witness ==
    /\ ConcreteCache /\ Args.source.kind = "cache" /\ OnlySizing("level")
    /\ Outer.level = Val(3) /\ Args.level = Val(2)
    /\ last.err = "none" /\ Len(caches) = 2

\* the call left the index tags, or the registry of pending calls, as they were
TagsUnchanged == index_attrs = Before.index_attrs
RegistryUnchanged == delayed_calls = Before.delayed_calls

\* the call stored exactly one pending call and did nothing else to the plan
RegisteredOnly ==
    /\ last.err = "none"
    /\ Len(delayed_calls) = Len(Before.delayed_calls) + 1
    /\ SubSeq(delayed_calls, 1, Len(Before.delayed_calls)) = Before.delayed_calls
    /\ delayed_calls[Len(delayed_calls)].fn = Args.fn
    /\ QueueUnchanged /\ TagsUnchanged

\* C12 as claimed: on a target without vector registers vectorize fails with
\* UnsupportedTarget for any index argument, a deferred one included, and tags no index,
\* enqueues nothing and registers nothing.
C12_VectorizeAlwaysUnsupported ==
    (Args.fn = "vectorize" /\ ~target.vectorization_info) =>
        last.err = "UnsupportedTarget" /\ TagsUnchanged /\ QueueUnchanged /\ RegistryUnchanged

\* C12 amended: on a target without vector registers vectorize of a concrete index fails
\* with UnsupportedTarget and tags no index, enqueues nothing and registers nothing;
\* vectorize of a deferred index does not fail at the call: it registers one pending call
\* and tags and enqueues nothing.
C12_ConcreteVectorizeUnsupported ==
    (Args.fn = "vectorize" /\ ~target.vectorization_info) =>
        /\ ~IsDelayedParameter(Args.index) =>
              /\ last.err = "UnsupportedTarget"
              /\ TagsUnchanged /\ QueueUnchanged /\ RegistryUnchanged
        /\ IsDelayedParameter(Args.index) => RegisteredOnly

\* vectorize of a concrete index was refused on a plan that already held a command
C12_Witness ==
    /\ Args.fn = "vectorize" /\ ~target.vectorization_info
    /\ ~IsDelayedParameter(Args.index)
    /\ Before.commands # <<>>
    /\ last.err = "UnsupportedTarget"

\* the indices of a list
Elements(l) == {l[k] : k \in 1 .. Len(l)}

\* a kernelize call none of whose arguments is deferred
ConcreteKernelize ==
    /\ Args.fn = "kernelize"
    /\ ~IsDelayedParameter(Args.unroll_indices)
    /\ ~IsDelayedParameter(Args.vectorize_indices)

\* some vectorize index of the call is also one of its unroll indices
SharedIndex == Elements(Args.vectorize_indices.v) \cap Elements(Args.unroll_indices.v) # {}

\* the plan after the replay of the pending call registered last
ReplayOfLast == replay_delayed_call(Self, delayed_calls[Len(delayed_calls)])

\* C13: kernelize in which some vectorize index is also an unroll index fails with
\* ConflictingIndices on every target and leaves the queue and the index tags as they
\* were.  With concrete arguments it fails at the call (and registers nothing); with a
\* deferred argument the call registers one pending call, and the replay of that call
\* fails with ConflictingIndices and leaves the queue and the tags as they were.
C13_KernelizeConflict ==
    (Args.fn = "kernelize" /\ SharedIndex) =>
        /\ ConcreteKernelize =>
              /\ last.err = "ConflictingIndices"
              /\ QueueUnchanged /\ TagsUnchanged /\ RegistryUnchanged
        /\ ~ConcreteKernelize =>
              /\ RegisteredOnly
              /\ ReplayOfLast.err = "ConflictingIndices"
              /\ ReplayOfLast.commands = commands
              /\ ReplayOfLast.index_attrs = index_attrs

\* kernelize was refused for its second vectorize index, on a plan that held a command
C13_Witness ==
    /\ ConcreteKernelize
    /\ Len(Args.unroll_indices.v) = 2 /\ Len(Args.vectorize_indices.v) = 2
    /\ Args.vectorize_indices.v[1] \notin Elements(Args.unroll_indices.v)
    /\ Args.vectorize_indices.v[2] = Args.unroll_indices.v[2]
    /\ Before.commands # <<>>
    /\ last.err = "ConflictingIndices"

\* the commands that unroll(u), or vectorize(v), for each index of a list, in order, append
CommandsOf(kind, l) == [k \in 1 .. Len(l) |-> Cmd(kind, <<l[k]>>, 0, "")]

\* C14: kernelize is sugar for unroll then vectorize.  A successful kernelize appends
\* exactly the commands of unroll(u) for each unroll index, in order, followed by those of
\* vectorize(v) for each vectorize index, in order; and vectorize_indices is optional:
\* when it is omitted (on a target that supports vectorization) the call succeeds and
\* appends exactly the unroll commands.
C14_KernelizeIsSugar ==
    ConcreteKernelize =>
        /\ last.err = "none" =>
              commands = Before.commands \o CommandsOf("unroll", Args.unroll_indices.v)
                             \o CommandsOf("vectorize", Args.vectorize_indices.v)
        /\ (IsNone(Args.vectorize_indices) /\ target.vectorization_info) =>
              /\ last.err = "none"
              /\ commands = Before.commands \o CommandsOf("unroll", Args.unroll_indices.v)

\* kernelize without vectorize indices raised TypeError and enqueued nothing
C14_OmittedRefused ==
    /\ ConcreteKernelize /\ IsNone(Args.vectorize_indices) /\ target.vectorization_info
    /\ Args.unroll_indices.v # <<>>
    /\ last.err = "TypeError" /\ QueueUnchanged

\* a call of one of the two packing operations
Packing == Args.fn \in {"pack_and_embed_buffer", "emit_runtime_init_pack"}

\* C15: both packing operations are only valid for constant-role buffers.  Each fails
\* with InvalidRole and enqueues nothing when the role of the buffer is not CONST, and
\* enqueues exactly one command when it is CONST.
C15_PackingNeedsConst ==
    Packing =>
        /\ Args.source.role # "CONST" => last.err = "InvalidRole" /\ QueueUnchanged
        /\ Args.source.role = "CONST" =>
              /\ last.err = "none"
              /\ Len(commands) = Len(Before.commands) + 1
              /\ SubSeq(commands, 1, Len(Before.commands)) = Before.commands

\* emit_runtime_init_pack enqueued its command for a buffer that is not CONST
C15_EmitAcceptsAnyRole ==
    /\ Args.fn = "emit_runtime_init_pack"
    /\ Args.source.role # "CONST"
    /\ last.err = "none"
    /\ Len(commands) = Len(Before.commands) + 1

\* the native calls that map each indices[k] to grid[k], once, in the given order
MapsInOrder(ctx, indices, grid) ==
    [k \in 1 .. Len(indices) |->
        NativeCall(ctx, "map_index_to_processor", <<indices[k]>>, 0, 0, grid[k])]

\* C16: bind is only valid for GPU targets.  On every non-GPU target bind(indices, grid)
\* fails with UnsupportedTarget and enqueues nothing; on a GPU target with
\* len(indices) = len(grid) it succeeds, enqueues one command and, when the build has
\* applied it, each indices[k] has been mapped to grid[k] exactly once, in the given
\* order; a call with unequal lengths never enqueues anything.
C16_BindOnlyOnGpu ==
    /\ Args.fn = "bind" =>
          /\ target.category # "GPU" => last.err = "UnsupportedTarget" /\ QueueUnchanged
          /\ (target.category = "GPU" /\ Len(Args.indices.v) = Len(Args.grid)) =>
                /\ last.err = "none"
                /\ commands = Append(Before.commands,
                                     [Cmd("bind", Args.indices.v, 0, "") EXCEPT !.grid = Args.grid])
          /\ Len(Args.indices.v) # Len(Args.grid) => QueueUnchanged
    /\ (BuildCompleted /\ Len(commands) = 1 /\ commands[1].kind = "bind"
           /\ Len(commands[1].indices) = Len(commands[1].grid)) =>
          BuildLog = MapsInOrder(context.id, commands[1].indices, commands[1].grid)

\* bind with more indices than grid entries was enqueued on a GPU target
C16_UnequalEnqueued ==
    /\ Args.fn = "bind" /\ target.category = "GPU"
    /\ Len(Args.indices.v) > Len(Args.grid)
    /\ last.err = "none"
    /\ Len(commands) = Len(Before.commands) + 1

\* the axes the inference looks at, the block size of an axis, and whether every axis
\* is a multiple of its block size
Axes == 1 .. (IF Len(nest_shape) < 2 THEN Len(nest_shape) ELSE 2)
BlockOf(k) ==
    IF split_factor[nest_shape[k].index] # 0 THEN split_factor[nest_shape[k].index] ELSE 16
Divisible == \A k \in Axes : nest_shape[k].shape % BlockOf(k) = 0

\* a build on a GPU target is past the creation of its context
ContextStepDone == target.category = "GPU" /\ last.call.fn = "build" /\ pc # "replay"

\* C17: GPU grid inference.  For each of the first min(2, rank) axes the block is the
\* split factor of the axis's index if it has one, else 16, and grid * block = shape.  If
\* some axis leaves a remainder the build fails with IndivisibleShape, no plan is created
\* and no command runs.  Shape 32 with split factor 16 gives block 16 and grid 2; shape 30
\* with split factor 16 fails.
C17_GpuGridInference ==
    ContextStepDone =>
        /\ Divisible =>
              /\ raised = "none"
              /\ context.id = builds /\ context.kind = "gpu_plan"
              /\ \A k \in Axes :
                    /\ context.block[k] = BlockOf(k)
                    /\ context.grid[k] * context.block[k] = nest_shape[k].shape
        /\ ~Divisible =>
              /\ raised = "IndivisibleShape" /\ pc = "halt"
              /\ context = NoContext
              /\ exec_log = <<>>
        /\ (Divisible /\ nest_shape[1].shape = 32 /\ split_factor[nest_shape[1].index] = 16) =>
              context.block[1] = 16 /\ context.grid[1] = 2
        /\ (nest_shape[1].shape = 30 /\ split_factor[nest_shape[1].index] = 16) =>
              raised = "IndivisibleShape"

\* a build of a plan with a command inferred block 8, grid 3 for one axis from its split
\* factor and block 16, grid 2 for the other, and ran the command
C17_Witness ==
    /\ ContextStepDone /\ BuildCompleted
    /\ context.block[1] = 8 /\ context.grid[1] = 3
    /\ context.block[2] = 16 /\ context.grid[2] = 2
    /\ split_factor[nest_shape[2].index] = 0
    /\ commands # <<>> /\ Len(BuildLog) = Len(commands)

\* a cache call on a CONST array that gives its position by level alone, and a trigger,
\* if any, by level, every level given being one the schedule can be asked for
ByLevelOnBuffer ==
    /\ ConcreteCache /\ ~Args.thrifty
    /\ Args.source = ArraySource("CONST")
    /\ ~IsNone(Args.level) /\ IsNone(Args.index) /\ IsNone(Args.max_elements)
    /\ IsNone(Args.trigger_index)
    /\ Args.level.v \in -1 .. Len(sched)
    /\ ~IsNone(Args.trigger_level) => Args.trigger_level.v \in -1 .. Len(sched)

\* C18: cache level bounds.  The cache of every successful cache call carries a level and
\* a trigger level with 1 <= level <= trigger_level, whatever sizing mode was used; a call
\* whose level or trigger_level is below 1 fails with InvalidCacheLevel, and a call with
\* 1 <= trigger_level < level fails with TriggerBeforeLevel.
C18_LevelBounds ==
    /\ (ConcreteCache /\ last.err = "none") =>
          LET c == caches[last.ret]
          IN /\ ~IsNone(c.level) => c.level.v >= 1
             /\ ~IsNone(c.trigger_level) => c.trigger_level.v >= 1
             /\ (~IsNone(c.level) /\ ~IsNone(c.trigger_level)) => c.level.v <= c.trigger_level.v
    /\ ByLevelOnBuffer =>
          /\ (Args.level.v < 1 \/ (~IsNone(Args.trigger_level) /\ Args.trigger_level.v < 1)) =>
                last.err = "InvalidCacheLevel"
          /\ (~IsNone(Args.trigger_level) /\ 1 <= Args.trigger_level.v
                 /\ Args.trigger_level.v < Args.level.v) =>
                last.err = "TriggerBeforeLevel"

\* a call with level 1 and trigger level 0 was refused with TriggerBeforeLevel
C18_TriggerZeroRefusedAsOrdering ==
    /\ ByLevelOnBuffer
    /\ Args.level = Val(1) /\ Args.trigger_level = Val(0)
    /\ last.err = "TriggerBeforeLevel"

\* the call has a DelayedParameter among index, trigger_index, level, trigger_level, or
\* its source is a placeholder that is not complete
IncompleteCall ==
    /\ Args.fn = "cache"
    /\ \/ \E f \in {"index", "trigger_index", "level", "trigger_level"} :
             IsDelayedParameter(Args[f])
       \/ Args.source.kind = "cache" /\ ~Before.caches[Args.source.id].completed

\* the same call made with the values its deferred parameters resolve to
WithValues == cache(Before, resolve_params(Args), 0)

\* C19: a cache call with a deferred index, trigger_index, level or trigger_level, or
\* with an incomplete placeholder as source, is deferred and not validated.  It never
\* fails at the call (also with thrifty set or with arguments no concrete call may
\* combine), enqueues no command, registers exactly one pending call and returns a new
\* incomplete placeholder on its source.  The validation happens at replay with the
\* concrete values: unless the source is still incomplete, the replay of the pending call
\* ends as the same call made with the values does, and enqueues what it enqueues.
C19_IncompleteCallDeferred ==
    IncompleteCall =>
        /\ RegisteredOnly
        /\ Len(caches) = Len(Before.caches) + 1
        /\ SubSeq(caches, 1, Len(Before.caches)) = Before.caches
        /\ last.ret = Len(caches)
        /\ caches[last.ret] = DelayedCache(Args.source)
        /\ delayed_calls[Len(delayed_calls)].cache = last.ret
        /\ (Args.source.kind = "cache" => Before.caches[Args.source.id].completed) =>
              /\ ReplayOfLast.err = WithValues.err
              /\ Len(ReplayOfLast.commands) - Len(commands)
                    = Len(WithValues.commands) - Len(Before.commands)
              /\ ReplayOfLast.err = "none" =>
                    Position(ReplayOfLast.caches[last.ret])
                        = Position(WithValues.caches[WithValues.ret])

\* a call with a deferred trigger level, thrifty set and two sizing arguments was
\* registered on a plan that already held a cache
C19_Witness ==
    /\ IncompleteCall
    /\ IsDelayedParameter(Args.trigger_level) /\ Args.thrifty
    /\ ~IsNone(Args.index) /\ ~IsNone(Args.level)
    /\ Before.caches # <<>>
    /\ last.err = "none" /\ ~caches[last.ret].completed

\* the placeholders of the plan, and the pending call each was returned by
Placeholders == {c \in 1 .. Len(caches) : caches[c].delayed}
EntryOf(c) ==
    CHOOSE k \in 1 .. Len(delayed_calls) :
        delayed_calls[k].fn = "cache" /\ delayed_calls[k].cache = c

\* a replay has invoked the pending call k; a replay of it has enqueued its command
Replayed(k) == \E i \in 1 .. Len(replay_log) : replay_log[i].call = k
Validated(k) == \E i \in 1 .. Len(origin) : origin[i].pass >= 1 /\ origin[i].call = k

\* the cache `inner` satisfies the conditions of a cache of the cache `outer`
Nests(outer, inner) ==
    /\ IsNone(outer.max_elements) = IsNone(inner.max_elements)
    /\ ~IsNone(inner.max_elements) => outer.max_elements.v > inner.max_elements.v
    /\ IsNone(inner.max_elements) =>
          outer.level.v > inner.level.v /\ outer.level.v >= inner.trigger_level.v

\* C20: placeholder self-completion.  A placeholder stays incomplete, with no field set,
\* until its pending call is replayed.  Once a replay of its call has validated, the same
\* placeholder is complete and carries the index, level and trigger fields the call with
\* concrete values gives; the add-cache command of its call refers to that placeholder;
\* and a cache that was given a placeholder as source still has it as source, was
\* validated only once that source was complete, and nests in it by its completed fields.
C20_PlaceholderCompletes ==
    \A c \in Placeholders :
        LET k == EntryOf(c)
        IN /\ ~Replayed(k) => caches[c] = DelayedCache(delayed_calls[k].call.source)
           /\ caches[c].target = delayed_calls[k].call.source
           /\ caches[c].completed <=> Validated(k)
           /\ Validated(k) =>
                 /\ c <= Len(direct.caches) => Position(caches[c]) = Position(direct.caches[c])
                 /\ IsNone(caches[c].max_elements) =>
                       ~IsNone(caches[c].index) /\ ~IsNone(caches[c].level)
                 /\ caches[c].target.kind = "cache" =>
                       /\ caches[caches[c].target.id].completed
                       /\ Nests(caches[caches[c].target.id], caches[c])
           /\ \A i \in 1 .. Len(origin) :
                 (origin[i].pass >= 1 /\ origin[i].call = k) =>
                     commands[i] = Cmd("add_cache", <<>>, c, "")

\* a replay completed a placeholder and then a second placeholder made on the first
C20_Witness ==
    \E s, c \in Placeholders :
        /\ caches[c].target = CacheSource(s)
        /\ caches[s].completed /\ caches[c].completed
        /\ Validated(EntryOf(s)) /\ Validated(EntryOf(c))
        /\ builds = 1

\* ------------------------------------------------ claims about the build

\* the replay of the current build stopped at pending call k: the wrapper raised out of
\* the k-th iteration of the replay loop, before it made a context (rp is one past the
\* iteration that raised; a failure of the context leaves it at 1)
ReplayFailedAt(k) ==
    /\ pc = "halt"
    /\ last.call.fn = "build"
    /\ rp = k + 1
    /\ replay_log # <<>>
    /\ replay_log[Len(replay_log)] = [pass |-> builds, call |-> k]

\* the queue positions of the commands pending call j enqueued in the current build
Contribution(j) == {i \in 1 .. Len(origin) : origin[i] = [call |-> j, pass |-> builds]}

\* C21: when the replay of a build fails at pending call k, the queue is the queue before
\* the build followed by the commands of pending calls 1 .. k-1, each of its kind and at
\* least one per call; calls k and later have enqueued nothing; the wrapper has raised the
\* error and not returned; and no command was run in that build, no context made for it.
C21_ReplayFailureKeepsPrefix ==
    \A k \in 1 .. Len(delayed_calls) :
        ReplayFailedAt(k) =>
            /\ Len(commands) >= Len(last.pre.commands)
            /\ SubSeq(commands, 1, Len(last.pre.commands)) = last.pre.commands
            /\ \A i \in Len(last.pre.commands) + 1 .. Len(commands) :
                  origin[i].pass = builds /\ origin[i].call < k
            /\ \A j \in 1 .. k - 1 :
                  /\ Contribution(j) # {}
                  /\ \A i \in Contribution(j) :
                        commands[i].kind = CommandKind(delayed_calls[j].fn)
            /\ \A j \in k .. Len(delayed_calls) : Contribution(j) = {}
            /\ raised # "none" /\ last.err = raised /\ ~last.done
            /\ BuildLog = <<>>
            /\ context.id # builds
            /\ \A e \in 1 .. Len(exec_log) : exec_log[e].ctx # builds

\* a replay failed at its second pending call, after the first one had enqueued
C21_Witness ==
    /\ ReplayFailedAt(2)
    /\ Contribution(1) # {}
    /\ Len(commands) > Len(last.pre.commands)

\* the command at queue position i adds a cache made of another cache
AddsNested(i) ==
    /\ commands[i].kind = "add_cache"
    /\ caches[commands[i].cache].target.kind = "cache"

\* the command at queue position j adds the cache the one added at position i is made of
AddsParentOf(j, i) ==
    /\ commands[j].kind = "add_cache"
    /\ commands[j].cache = caches[commands[i].cache].target.id

\* C22: in every queue, a command that adds a cache made of another cache comes after a
\* command that adds that other cache; and when the commands run, a nested cache is given
\* a parent handle made on the same context, never a missing one.
C22_ParentCacheAddedFirst ==
    /\ \A i \in 1 .. Len(commands) :
          AddsNested(i) => \E j \in 1 .. i - 1 : AddsParentOf(j, i)
    /\ \A e \in 1 .. Len(exec_log) :
          (exec_log[e].op = "add_cache" /\ caches[exec_log[e].cache].target.kind = "cache")
              => exec_log[e].source = exec_log[e].ctx
    /\ raised # "AttributeError"

\* a build has run the commands of a deferred cache and of a cache made of it with a
\* concrete level, parent first
C22_Witness ==
    /\ BuildCompleted
    /\ \E i, j \in 1 .. Len(commands) :
          /\ j < i
          /\ AddsNested(i)
          /\ AddsParentOf(j, i)
          /\ caches[commands[j].cache].delayed
          /\ IsNone(delayed_calls[EntryOf(commands[i].cache)].call.max_elements)
          /\ ~IsDelayedParameter(delayed_calls[EntryOf(commands[i].cache)].call.level)
          /\ caches[commands[i].cache].native = context.id

\* pending call k has been invoked by the replay of the current build
ReplayedNow(k) == \E i \in 1 .. Len(replay_log) : replay_log[i] = [pass |-> builds, call |-> k]

\* the current build has made its context
ContextMade == context.id = builds

\* the current build raised out of Plan._build_native_context
ContextFailed == pc = "halt" /\ last.call.fn = "build" /\ raised = "IndivisibleShape"

\* C23: in a build the context is made first, the pending calls are replayed next, the
\* commands run last: a pending call is replayed only once the context of that build is
\* there, a command runs only once every pending call has been replayed, and when the
\* construction of the context fails no pending call has been replayed.
C23_ContextThenReplayThenExecute ==
    last.call.fn = "build" =>
        /\ \A k \in 1 .. Len(delayed_calls) : ReplayedNow(k) => ContextMade
        /\ BuildLog # <<>> => \A k \in 1 .. Len(delayed_calls) : ReplayedNow(k)
        /\ ContextFailed => \A k \in 1 .. Len(delayed_calls) : ~ReplayedNow(k)

\* the construction of the context failed after the replay of the same build had
\* invoked a pending call and enqueued its command
C23_ContextFailedAfterReplay ==
    /\ ContextFailed
    /\ ReplayedNow(1)
    /\ Len(commands) > Len(last.pre.commands)

\* ------------------------------------------------ claims about the frame of a call

DependenciesUnchanged == dynamic_dependencies = Before.dynamic_dependencies

\* the most recent call was a transformation call and raised
FailedCall ==
    /\ Args.fn \in {"unroll", "vectorize", "parallelize", "cache", "bind", "kernelize",
                    "pack_and_embed_buffer", "emit_runtime_init_pack"}
    /\ last.err # "none"

\* C24: a transformation call that raises leaves the queue, the registry, the index tags
\* and the dynamic dependencies as they were before the call.
C24_FailedCallChangesNothing ==
    FailedCall =>
        /\ QueueUnchanged
        /\ RegistryUnchanged
        /\ TagsUnchanged
        /\ DependenciesUnchanged

\* a cache call raised after it had tagged its index
C24_FailedCacheLeftTag ==
    /\ FailedCall
    /\ Args.fn = "cache"
    /\ ~IsNone(Args.index)
    /\ index_attrs[Args.index.v] = Append(Before.index_attrs[Args.index.v], "cache")
    /\ QueueUnchanged

\* ------------------------------------------------ claims about chains of caches

\* the caches whose sizing is known: concrete caches and completed placeholders
Sized == {c \in 1 .. Len(caches) : caches[c].completed}

\* the caches made of other caches
Nested == {c \in 1 .. Len(caches) : caches[c].target.kind = "cache"}

ParentOf(c) == caches[c].target.id

\* the caches met by following `target` from c, at most n steps
RECURSIVE Ancestors(_, _)
Ancestors(c, n) ==
    IF n = 0 \/ c \notin Nested THEN {}
    ELSE {ParentOf(c)} \cup Ancestors(ParentOf(c), n - 1)

\* the sizing mode of a cache
Mode(c) == IF IsNone(caches[c].max_elements) THEN "level" ELSE "budget"

\* the number of caches on the chain that ends in c
ChainLength(c) == 1 + Cardinality(Ancestors(c, Len(caches)))

\* C25: along every chain of nested caches the sizing is strictly monotone: a sized cache
\* made of a cache has a sized parent of the same mode, with a strictly larger budget or
\* a strictly higher level; levels lie in 1 .. n for a schedule of n indices, so a chain
\* of level caches has at most n caches; and no cache is its own ancestor.
C25_ChainsStrictlyMonotone ==
    /\ \A c \in Sized \cap Nested :
          /\ ParentOf(c) \in Sized
          /\ Mode(c) = Mode(ParentOf(c))
          /\ Mode(c) = "budget" =>
                caches[ParentOf(c)].max_elements.v > caches[c].max_elements.v
          /\ Mode(c) = "level" => caches[ParentOf(c)].level.v > caches[c].level.v
    /\ \A c \in Sized :
          Mode(c) = "level" =>
              /\ caches[c].level.v \in 1 .. Len(sched)
              /\ ChainLength(c) <= Len(sched)
    /\ \A c \in 1 .. Len(caches) : c \notin Ancestors(c, Len(caches))

\* a chain of level caches as long as the schedule has indices, at least two, the inner
\* one completed by a replay
C25_Witness ==
    \E c \in Sized :
        /\ Mode(c) = "level"
        /\ ChainLength(c) = Len(sched)
        /\ Len(sched) >= 2
        /\ caches[c].delayed
        /\ Len(caches) > Len(sched)

\* the most recent call was given an unresolved deferred parameter in a place where its
\* method defers
DeferredCall ==
    \/ Args.fn \in {"unroll", "vectorize"} /\ IsDelayedParameter(Args.index)
    \/ /\ Args.fn = "parallelize"
       /\ \E f \in {"indices", "pin", "policy"} : IsDelayedParameter(Args[f])
    \/ /\ Args.fn = "kernelize"
       /\ \E f \in {"unroll_indices", "vectorize_indices"} : IsDelayedParameter(Args[f])
    \/ /\ Args.fn = "cache"
       /\ \E f \in {"index", "trigger_index", "level", "trigger_level"} :
             IsDelayedParameter(Args[f])

\* C26: a deferred call adds exactly one entry to the registry, after those it held, and
\* leaves the queue, the index tags and the dynamic dependencies as they were.
C26_DeferredCallOnlyRegisters ==
    DeferredCall => (RegisteredOnly /\ DependenciesUnchanged)

\* a deferred parallelize on a CPU target registered its call and added the OpenMP
\* dependency to a plan that did not have it
C26_DeferredParallelizeAddsOpenMP ==
    /\ DeferredCall
    /\ Args.fn = "parallelize"
    /\ RegisteredOnly
    /\ "OPENMP" \notin Before.dynamic_dependencies
    /\ dynamic_dependencies = Before.dynamic_dependencies \cup {"OPENMP"}

====
